---- MODULE Spec2Model ----
(***************************************************************************)
(* Model of the consensus state machine core of the rollup node:           *)
(*   - the sync event journal   (crates/db/src/sync_event/db.rs)           *)
(*   - the submission shim      (crates/consensus-logic/src/ctl.rs)        *)
(*   - the unfinalized tracker  (crates/consensus-logic/src/               *)
(*                               unfinalized_tracker.rs)                   *)
(*   - the consensus state store (crates/db/src/traits.rs) and the CSM     *)
(*     worker started by sequencer/src/main.rs                             *)
(* Each component has its own specification; the variables of the other    *)
(* components stay at their initial values.                                *)
(***************************************************************************)
EXTENDS Integers, Sequences, FiniteSets, TLC

VARIABLES
    \* ---- sync event journal ----
    db,             \* SyncEventSchema column family: index -> [event, timestamp]
    now,            \* wall clock read by SyncEventWithTimestamp::new
    hist,           \* ghost: <<[idx, ev]>> of every append that returned Ok, in return order
    cleared,        \* ghost: indices named by the ranges of successful clear_sync_event calls
    lastOp,         \* ghost: the last journal call and its result

    \* ---- submission shim and thread pool ----
    jobs,           \* closures queued on the thread pool, FIFO
    wst,            \* per pool thread: position inside the closure
    resp,           \* per producer: the oneshot channel resp_tx/resp_rx
    ppc,            \* per producer: position inside submit_event
    csm_queue,      \* the mpsc channel csm_tx/csm_rx of CsmMessage::EventInput

    \* ---- unfinalized block tracker ----
    headers,        \* the L2 block headers that exist: blkid -> parent blkid
    finalized_tip,  \* UnfinalizedBlockTracker.finalized_tip
    pending_table,  \* UnfinalizedBlockTracker.pending_table: blkid -> [parent, children]
    unfinalized_tips, \* UnfinalizedBlockTracker.unfinalized_tips
    treeOp,         \* ghost: the last tracker call and its result

    \* ---- consensus state store ----
    cs_db,          \* the checkpoints: index -> ConsensusOutput
    csOp,           \* ghost: the last write_consensus_output call and its result

    \* ---- CSM worker ----
    wpc,            \* position of the worker task inside its loop
    last_applied,   \* index of the state the worker holds
    wtarget,        \* idx of the EventInput being handled
    published,      \* the watch channel of the latest applied state: its index
    outlog,         \* ghost: the indices the worker wrote outputs at, in order
    whi,            \* ghost: the largest idx among the EventInputs received
    cancelledAppends, \* ghost: [idx, ev] of appends whose awaiter was cancelled
    subOp,          \* ghost: the last return of submit_event / submit_event_async

    \* ---- state transition ----
    l2_store,       \* L2DataProvider: the ids of the L2 blocks whose data is stored
    procOp,         \* ghost: the last process_event call and its result

    \* ---- L1 writer ----
    blobs,          \* the blob entries: index -> [status, commit_txid, reveal_txid]
    bcast,          \* the broadcast database: txid -> L1TxStatus
    curr_blobidx,   \* watcher_task's cursor
    l1_status,      \* L1Status.last_published_txid
    watcher,        \* whether watcher_task is still running
    pollOp          \* ghost: the last poll of the watcher and what it read

journalVars == <<db, now, hist, cleared, lastOp>>
shimVars == <<jobs, wst, resp, ppc, csm_queue>>
treeVars == <<headers, finalized_tip, pending_table, unfinalized_tips, treeOp>>
storeVars == <<cs_db, csOp>>
workerVars == <<wpc, last_applied, wtarget, published, outlog, whi, cancelledAppends>>
submitVars == <<subOp>>
processVars == <<l2_store, procOp>>
writerVars == <<blobs, bcast, curr_blobidx, l1_status, watcher, pollOp>>
sideVars == <<processVars, writerVars>>
vars == <<journalVars, shimVars, treeVars, storeVars, workerVars, submitVars, sideVars>>

\* What the calls of one component leave alone
otherThanJournal == <<shimVars, treeVars, storeVars, workerVars, submitVars, sideVars>>
otherThanShim == <<treeVars, storeVars, workerVars, sideVars>>
otherThanTree == <<journalVars, shimVars, storeVars, workerVars, submitVars, sideVars>>
otherThanStore == <<journalVars, shimVars, treeVars, workerVars, submitVars, sideVars>>
otherThanProcess == <<journalVars, shimVars, treeVars, workerVars, submitVars, writerVars>>
otherThanWriter == <<journalVars, shimVars, treeVars, storeVars, workerVars, submitVars,
                     processVars>>

----------------------------------------------------------------------------
\* Bounds of the model.

MaxAppends == 5         \* write_sync_event calls in one run
MaxIdx == MaxAppends + 1 \* largest start_idx / end_idx / lookup index tried
MaxSubmits == 3         \* events submitted through the shim in one run
NumPoolThreads == 2     \* threads of the thread pool
NumProducers == 2       \* tasks calling submit_event
NumBlocks == 5          \* L2 blocks that exist, the first finalized tip included
MaxStateIdx == 4        \* largest index tried in write_consensus_output
NumL2Blocks == 2        \* L2 block ids named by the events given to process_event
NumL1Blocks == 1        \* L1 blocks named by the events given to process_event
MaxBatchLen == 2        \* L2 block ids in one L1DABatch event
MaxProcIdx == 2         \* largest index an output of process_event is written at
MaxBlobs == 2           \* blob intents submitted to the writer in one run
MaxSignings == 2        \* signings by the watcher in one run
MaxParamHeight == 3     \* largest horizon / genesis L1 height of the params

----------------------------------------------------------------------------
\* Values.

\* SyncEvent (state/src/sync_event.rs): the payloads are abstracted to the variant.
SyncEvents == {"L1BlockPosted", "L2BlockRecv", "L2BlockExec"}

\* Option<T>
None == <<>>
Some(v) == <<v>>
IsSome(o) == o # <<>>
Unwrap(o) == o[1]
UnwrapOr(o, d) == IF o = <<>> THEN d ELSE o[1]

\* DbError::Other(msg) as returned by clear_sync_event
ErrBadRange == "start_idx must be less than end_idx"
ErrBeyondTip == "end_idx must be less than or equal to last_key"
ErrEmptyJournal == "cannot clear empty db"

SetMax(S) == CHOOSE x \in S : \A y \in S : y <= x
SetMin(S) == CHOOSE x \in S : \A y \in S : x <= y

\* The keys of a column family in iteration (ascending) order.
RECURSIVE SortedKeys(_)
SortedKeys(S) ==
    IF S = {} THEN <<>>
    ELSE LET m == SetMin(S) IN <<m>> \o SortedKeys(S \ {m})

----------------------------------------------------------------------------
\* Sync event journal: SyncEventDB

\* SyncEventWithTimestamp::new(ev): the event with the current unix millis
NewSyncEventWithTimestamp(ev, t) == [event |-> ev, timestamp |-> t]

\* get_last_key: seek_to_last, then the first item of the reversed iterator
GetLastKey(d) ==
    IF DOMAIN d = {} THEN None ELSE Some(SetMax(DOMAIN d))

\* db.put::<SyncEventSchema>(&id, &event)
DbPut(d, id, rec) ==
    [k \in (DOMAIN d) \cup {id} |-> IF k = id THEN rec ELSE d[k]]

\* write_sync_event, lines 37-38: the id the event is stored at
\* (WriteSyncEventIdBug: the same without the increment)
WriteSyncEventIdBug(d) == UnwrapOr(GetLastKey(d), 0)
WriteSyncEventId(d) == UnwrapOr(GetLastKey(d), 0) + 1

\* get_last_idx / get_sync_event / get_event_timestamp
GetLastIdx(d) == GetLastKey(d)
GetSyncEvent(d, idx) == IF idx \in DOMAIN d THEN Some(d[idx].event) ELSE None
GetEventTimestamp(d, idx) == IF idx \in DOMAIN d THEN Some(d[idx].timestamp) ELSE None

\* clear_sync_event, lines 64-73: the ids put in the delete batch by the scan of
\* the ascending iterator, which stops at the first id >= end_idx
RECURSIVE ClearScan(_, _, _, _)
ClearScan(keys, i, start_idx, end_idx) ==
    IF i > Len(keys) THEN {}
    ELSE IF keys[i] >= end_idx THEN {}
    ELSE (IF keys[i] >= start_idx THEN {keys[i]} ELSE {})
            \cup ClearScan(keys, i + 1, start_idx, end_idx)

\* (ClearBatchBug: a scan that stops after end_idx instead of before it;
\*  ClearBatchNoStart: a scan that drops the test against start_idx)
ClearBatchBug(d, start_idx, end_idx) ==
    {id \in DOMAIN d : id >= start_idx /\ id <= end_idx}
ClearBatchNoStart(d, start_idx, end_idx) ==
    {id \in DOMAIN d : id < end_idx}
ClearBatch(d, start_idx, end_idx) ==
    ClearScan(SortedKeys(DOMAIN d), 1, start_idx, end_idx)

\* clear_sync_event, lines 45-56: the checks made before anything is deleted
\* (ClearCheckBug: the first check with <= for <)
ClearCheckBug(d, start_idx, end_idx) ==
    IF ~(start_idx <= end_idx) THEN ErrBadRange
    ELSE IF GetLastKey(d) = None THEN ErrEmptyJournal
    ELSE IF ~(end_idx <= Unwrap(GetLastKey(d))) THEN ErrBeyondTip
    ELSE "Ok"
\* (ClearCheckNoTip: the checks without the one against last_key)
ClearCheckNoTip(d, start_idx, end_idx) ==
    IF ~(start_idx < end_idx) THEN ErrBadRange
    ELSE IF GetLastKey(d) = None THEN ErrEmptyJournal
    ELSE "Ok"
ClearCheck(d, start_idx, end_idx) ==
    IF ~(start_idx < end_idx) THEN ErrBadRange
    ELSE IF GetLastKey(d) = None THEN ErrEmptyJournal
    ELSE IF ~(end_idx <= Unwrap(GetLastKey(d))) THEN ErrBeyondTip
    ELSE "Ok"

\* db.write_schemas(batch)
DbDelete(d, batch) == [k \in (DOMAIN d) \ batch |-> d[k]]

NoOp == [op |-> "none", ev |-> "", start |-> 0, end |-> 0, res |-> "", ret |-> 0]

InitJournal ==
    /\ db = [k \in {} |-> NewSyncEventWithTimestamp("", 0)]
    /\ now = 0
    /\ hist = <<>>
    /\ cleared = {}
    /\ lastOp = NoOp

\* write_sync_event(ev) called by a single caller: the whole call.  The wall
\* clock has advanced by dt when the record is built.
WriteSyncEvent(ev, dt) ==
    /\ Len(hist) < MaxAppends
    /\ LET id == WriteSyncEventId(db) IN
        /\ db' = DbPut(db, id, NewSyncEventWithTimestamp(ev, now + dt))
        /\ hist' = Append(hist, [idx |-> id, ev |-> ev])
        /\ lastOp' = [op |-> "append", ev |-> ev, start |-> 0, end |-> 0,
                      res |-> "Ok", ret |-> id]
    /\ now' = now + dt
    /\ UNCHANGED <<cleared, otherThanJournal>>

\* clear_sync_event(start_idx, end_idx): the whole call
ClearSyncEvent(start_idx, end_idx) ==
    /\ LET res == ClearCheck(db, start_idx, end_idx) IN
        /\ lastOp' = [op |-> "clear", ev |-> "", start |-> start_idx, end |-> end_idx,
                      res |-> res, ret |-> 0]
        /\ IF res = "Ok"
           THEN /\ db' = DbDelete(db, ClearBatch(db, start_idx, end_idx))
                /\ cleared' = cleared \cup {i \in 1..MaxIdx : start_idx <= i /\ i < end_idx}
           ELSE UNCHANGED <<db, cleared>>
    /\ UNCHANGED <<now, hist, otherThanJournal>>

\* The inputs of write_sync_event tried: an event and the time passed since the
\* previous append (0: the same millisecond).
AppendInputs == {<<"L2BlockRecv", 0>>, <<"L2BlockExec", 1>>}

NextJournal ==
    \/ \E in \in AppendInputs : WriteSyncEvent(in[1], in[2])
    \/ \E s \in 0..MaxIdx, e \in 0..MaxIdx : ClearSyncEvent(s, e)

----------------------------------------------------------------------------
\* Submission shim: CsmController, SubmitEventShim (ctl.rs)

\* mpsc::channel::<CsmMessage>(64)
CsmQueueCap == 64

Producers == 1..NumProducers
PoolThreads == 1..NumPoolThreads

IdleThread == [pc |-> "idle", p |-> 0, ev |-> "", id |-> 0]

\* The value sent on resp_tx: Ok(id) is Some(id), Err(DbError) is ErrResp
ErrResp == <<0, "DbError">>
IsOkResp(r) == Len(r) = 1

\* csm_rx is dropped when the worker task has ended: sends on csm_tx fail
CsmClosed == wpc \in {"stopped", "fatal"}

NoSubOp == [p |-> 0, res |-> "", idx |-> 0, sent |-> FALSE]

InitShim ==
    /\ jobs = <<>>
    /\ wst = [w \in PoolThreads |-> IdleThread]
    /\ resp = [p \in Producers |-> None]
    /\ ppc = [p \in Producers |-> "idle"]
    /\ csm_queue = <<>>
    /\ subOp = NoSubOp

\* Events a producer has submitted that are journaled or on their way
InFlight == Len(csm_queue) + Cardinality({p \in Producers : ppc[p] # "idle"})

\* submit_event / submit_event_async up to the wait on resp_rx: the shim's
\* closure creates the oneshot channel and hands the job to the pool
SubmitEvent(p, ev) ==
    /\ ppc[p] = "idle"
    /\ InFlight < MaxSubmits
    /\ jobs' = Append(jobs, [p |-> p, ev |-> ev])
    /\ ppc' = [ppc EXCEPT ![p] = "wait"]
    /\ UNCHANGED <<wst, resp, csm_queue, subOp, journalVars, otherThanShim>>

\* a free pool thread takes the oldest queued closure
PoolTake(w) ==
    /\ wst[w].pc = "idle"
    /\ jobs # <<>>
    /\ wst' = [wst EXCEPT ![w] = [pc |-> "read", p |-> Head(jobs).p, ev |-> Head(jobs).ev, id |-> 0]]
    /\ jobs' = Tail(jobs)
    /\ UNCHANGED <<resp, ppc, csm_queue, subOp, journalVars, otherThanShim>>

\* write_sync_event on the pool thread, lines 37-38: read the last key, pick the id
PoolRead(w) ==
    /\ wst[w].pc = "read"
    /\ wst' = [wst EXCEPT ![w].pc = "put", ![w].id = WriteSyncEventId(db)]
    /\ UNCHANGED <<jobs, resp, ppc, csm_queue, subOp, journalVars, otherThanShim>>

\* write_sync_event on the pool thread, lines 39-41: put the record, return the
\* id; then the closure sends the result on resp_tx
PoolPut(w) ==
    /\ wst[w].pc = "put"
    /\ ppc[wst[w].p] = "wait"
    /\ db' = DbPut(db, wst[w].id, NewSyncEventWithTimestamp(wst[w].ev, now))
    /\ hist' = Append(hist, [idx |-> wst[w].id, ev |-> wst[w].ev])
    /\ lastOp' = [op |-> "append", ev |-> wst[w].ev, start |-> 0, end |-> 0,
                  res |-> "Ok", ret |-> wst[w].id]
    /\ resp' = [resp EXCEPT ![wst[w].p] = Some(wst[w].id)]
    /\ wst' = [wst EXCEPT ![w] = IdleThread]
    /\ UNCHANGED <<jobs, ppc, csm_queue, subOp, now, cleared, otherThanShim>>

\* submit_event / submit_event_async after the wait: send EventInput(ev_idx),
\* return Ok
SendEventInput(p) ==
    /\ ppc[p] = "wait"
    /\ resp[p] # None
    /\ IsOkResp(resp[p])
    /\ ~CsmClosed
    /\ Len(csm_queue) < CsmQueueCap
    /\ csm_queue' = Append(csm_queue, Unwrap(resp[p]))
    /\ resp' = [resp EXCEPT ![p] = None]
    /\ ppc' = [ppc EXCEPT ![p] = "idle"]
    /\ subOp' = [p |-> p, res |-> "Ok", idx |-> Unwrap(resp[p]), sent |-> TRUE]
    /\ UNCHANGED <<jobs, wst, journalVars, otherThanShim>>

\* (SendEventInputClosedBug: the error of the send is returned to the caller)
SendEventInputClosedBug(p) ==
    /\ ppc[p] = "wait"
    /\ resp[p] # None
    /\ IsOkResp(resp[p])
    /\ CsmClosed
    /\ resp' = [resp EXCEPT ![p] = None]
    /\ ppc' = [ppc EXCEPT ![p] = "idle"]
    /\ subOp' = [p |-> p, res |-> "Err", idx |-> Unwrap(resp[p]), sent |-> FALSE]
    /\ UNCHANGED <<jobs, wst, csm_queue, journalVars, otherThanShim>>

\* submit_event / submit_event_async after the wait, the receiver closed: the
\* send fails, a warning is logged, return Ok (lines 36-40, 48-52)
SendEventInputClosed(p) ==
    /\ ppc[p] = "wait"
    /\ resp[p] # None
    /\ IsOkResp(resp[p])
    /\ CsmClosed
    /\ resp' = [resp EXCEPT ![p] = None]
    /\ ppc' = [ppc EXCEPT ![p] = "idle"]
    /\ subOp' = [p |-> p, res |-> "Ok", idx |-> Unwrap(resp[p]), sent |-> FALSE]
    /\ UNCHANGED <<jobs, wst, csm_queue, journalVars, otherThanShim>>

\* submit_event / submit_event_async after the wait, the append failed: the
\* error is returned by the ? of lines 34 and 46, nothing is sent
SubmitReturnErr(p) ==
    /\ ppc[p] = "wait"
    /\ resp[p] = ErrResp
    /\ resp' = [resp EXCEPT ![p] = None]
    /\ ppc' = [ppc EXCEPT ![p] = "idle"]
    /\ subOp' = [p |-> p, res |-> "Err", idx |-> 0, sent |-> FALSE]
    /\ UNCHANGED <<jobs, wst, csm_queue, journalVars, otherThanShim>>

\* write_sync_event fails on the pool thread (a DbError of get_last_key or of
\* put): nothing is stored, the closure sends the error on resp_tx
PoolFail(w) ==
    /\ wst[w].pc \in {"read", "put"}
    /\ ppc[wst[w].p] = "wait"
    /\ resp' = [resp EXCEPT ![wst[w].p] = ErrResp]
    /\ wst' = [wst EXCEPT ![w] = IdleThread]
    /\ UNCHANGED <<jobs, ppc, csm_queue, subOp, journalVars, otherThanShim>>

NextShim ==
    \/ \E p \in Producers, ev \in {"L2BlockRecv", "L2BlockExec"} : SubmitEvent(p, ev)
    \/ \E w \in PoolThreads : PoolTake(w)
    \/ \E w \in PoolThreads : PoolRead(w)
    \/ \E w \in PoolThreads : PoolPut(w)
    \/ \E p \in Producers : SendEventInput(p)

----------------------------------------------------------------------------
\* Unfinalized block tracker: UnfinalizedBlockTracker (unfinalized_tracker.rs)

\* L2BlockId::from(Buf32::zero())
ZeroBlkid == 0
Blocks == 1..NumBlocks

\* The first finalized tip handed to new_empty
GenesisBlkid == 1

\* The headers that can exist: a block id is the hash of its header, which
\* names the parent, so every block has one parent and no block is its own
\* ancestor (ids are numbered parents first).
HeaderSets ==
    {h \in [Blocks -> {ZeroBlkid} \cup Blocks] :
        /\ h[GenesisBlkid] = ZeroBlkid
        /\ \A b \in Blocks \ {GenesisBlkid} : h[b] \in 1..(b - 1)}

\* BlockEntry
BlockEntry(parent, children) == [parent |-> parent, children |-> children]

\* HashMap::remove / insert
MapRemove(tbl, k) == [x \in (DOMAIN tbl) \ {k} |-> tbl[x]]
MapInsert(tbl, k, v) == [x \in (DOMAIN tbl) \cup {k} |-> IF x = k THEN v ELSE tbl[x]]

\* The orders in which a HashSet can be iterated
RECURSIVE IterOrders(_)
IterOrders(S) ==
    IF S = {} THEN {<<>>}
    ELSE UNION {{<<x>> \o rest : rest \in IterOrders(S \ {x})} : x \in S}

SeqToSet(q) == {q[i] : i \in 1..Len(q)}

\* sanity_check_parent_seq
RECURSIVE SanityCheckParentSeq(_, _, _)
SanityCheckParentSeq(blkid, tbl, ftip) ==
    IF blkid = ftip THEN TRUE
    ELSE IF blkid \in DOMAIN tbl
         THEN SanityCheckParentSeq(tbl[blkid].parent, tbl, ftip)
         ELSE FALSE

\* get_parent
GetParent(id, tbl, ftip) ==
    IF id = ftip THEN None
    ELSE IF id \in DOMAIN tbl THEN Some(tbl[id].parent) ELSE None

NoTreeOp ==
    [op |-> "new_empty", blkid |-> 0, res |-> "Ok", ret |-> FALSE,
     prev_tip |-> 0, finalized |-> <<>>, rejected |-> <<>>]

\* new_empty(finalized_tip)
InitTree ==
    /\ headers \in HeaderSets
    /\ finalized_tip = GenesisBlkid
    /\ pending_table = (GenesisBlkid :> BlockEntry(ZeroBlkid, {}))
    /\ unfinalized_tips = {GenesisBlkid}
    /\ treeOp = NoTreeOp

\* A panic unwinds the thread that owns the tracker: no call follows it.
TrackerAlive == treeOp.res # "panic"

\* attach_block, lines 96-106: the checks made before the entry is inserted
\* (AttachCheckBug: the same without the test of line 96)
AttachCheckBug(blkid, parent_blkid, tbl) ==
    IF parent_blkid \notin DOMAIN tbl THEN "AttachMissingParent"
    ELSE "Ok"
AttachCheck(blkid, parent_blkid, tbl) ==
    IF blkid \in DOMAIN tbl THEN "BlockAlreadyAttached"
    ELSE IF parent_blkid \notin DOMAIN tbl THEN "AttachMissingParent"
    ELSE "Ok"

\* attach_block, lines 116-117: the tips after the parent is removed and the
\* new block inserted (AttachTipsBug: the same without the removal)
AttachTipsBug(tips, parent_blkid, blkid) == tips \cup {blkid}
AttachTips(tips, parent_blkid, blkid) == (tips \ {parent_blkid}) \cup {blkid}

\* attach_block(blkid, header), header.parent() = headers[blkid]
AttachBlock(blkid) ==
    /\ TrackerAlive
    /\ LET parent_blkid == headers[blkid]
           res == AttachCheck(blkid, parent_blkid, pending_table)
       IN
        IF res # "Ok"
        THEN /\ treeOp' = [NoTreeOp EXCEPT !.op = "attach", !.blkid = blkid,
                                           !.res = res]
             /\ UNCHANGED <<pending_table, unfinalized_tips>>
        ELSE LET parent_ent == pending_table[parent_blkid]
                 tbl1 == MapInsert(pending_table, parent_blkid,
                            BlockEntry(parent_ent.parent, parent_ent.children \cup {blkid}))
                 tbl2 == MapInsert(tbl1, blkid, BlockEntry(parent_blkid, {}))
                 did_replace == parent_blkid \in unfinalized_tips
             IN  /\ pending_table' = tbl2
                 /\ unfinalized_tips' = AttachTips(unfinalized_tips, parent_blkid, blkid)
                 /\ treeOp' = [NoTreeOp EXCEPT !.op = "attach", !.blkid = blkid,
                                               !.res = "Ok", !.ret = ~did_replace]
    /\ UNCHANGED <<headers, finalized_tip, otherThanTree>>

\* update_finalized_tip, lines 134-153: the walk from blkid down to the
\* finalized tip.  Every outcome [path, to_evict] the iteration order of the
\* children sets allows.
RECURSIVE WalkToFinalized(_, _, _, _, _)
WalkToFinalized(at, path, to_evict, tbl, ftip) ==
    IF at = ftip THEN {[path |-> path, to_evict |-> to_evict]}
    ELSE LET ent == tbl[at] IN
         UNION {WalkToFinalized(ent.parent, Append(path, at),
                                to_evict \o SelectSeq(order, LAMBDA ch : ch # at),
                                tbl, ftip)
                    : order \in IterOrders(ent.children)}

\* update_finalized_tip, lines 157-168: the eviction worklist.  Every outcome
\* [tbl, tips, evicted, panic]; panic is the failed expect of line 163.
RECURSIVE EvictAll(_, _, _, _)
EvictAll(to_evict, tbl, tips, evicted) ==
    IF to_evict = <<>>
    THEN {[tbl |-> tbl, tips |-> tips, evicted |-> evicted, panic |-> FALSE]}
    ELSE LET evicting == to_evict[Len(to_evict)]
             rest == SubSeq(to_evict, 1, Len(to_evict) - 1)
         IN  IF evicting \notin DOMAIN tbl
             THEN {[tbl |-> tbl, tips |-> tips, evicted |-> evicted, panic |-> TRUE]}
             ELSE UNION {EvictAll(rest \o order, MapRemove(tbl, evicting),
                                  tips \ {evicting}, Append(evicted, evicting))
                            : order \in IterOrders(tbl[evicting].children)}

\* update_finalized_tip, lines 173-177: remove the path blocks other than blkid.
\* [tbl, panic]; panic is the failed assert of line 175.
RECURSIVE RemovePath(_, _, _, _)
RemovePath(path, i, blkid, tbl) ==
    IF i > Len(path) THEN [tbl |-> tbl, panic |-> FALSE]
    ELSE IF path[i] = blkid THEN RemovePath(path, i + 1, blkid, tbl)
    ELSE IF path[i] \notin DOMAIN tbl THEN [tbl |-> tbl, panic |-> TRUE]
    ELSE RemovePath(path, i + 1, blkid, MapRemove(tbl, path[i]))

Outcome(res, tbl, tips, ftip, prev, finalized, rejected) ==
    [res |-> res, tbl |-> tbl, tips |-> tips, ftip |-> ftip,
     prev_tip |-> prev, finalized |-> finalized, rejected |-> rejected]

\* (FinishFinalizeBug: lines 170-189 without the test of line 174, so that the
\*  new tip is removed with the rest of the path)
FinishFinalizeBug(blkid, w, ev, ftip) ==
    IF ev.panic
    THEN Outcome("panic", ev.tbl, ev.tips, ftip, 0, <<>>, <<>>)
    ELSE IF ftip \notin DOMAIN ev.tbl
    THEN Outcome("panic", ev.tbl, ev.tips, ftip, 0, <<>>, <<>>)
    ELSE LET rp == RemovePath(w.path, 1, ZeroBlkid, MapRemove(ev.tbl, ftip)) IN
         IF rp.panic
         THEN Outcome("panic", rp.tbl, ev.tips, ftip, 0, <<>>, <<>>)
         ELSE IF w.path = <<>>
         THEN Outcome("panic", rp.tbl, ev.tips, blkid, 0, <<>>, <<>>)
         ELSE Outcome("Ok", rp.tbl, ev.tips, blkid, ftip, w.path, ev.evicted)

\* update_finalized_tip, lines 170-189, after a walk w and an eviction ev
FinishFinalize(blkid, w, ev, ftip) ==
    IF ev.panic
    THEN Outcome("panic", ev.tbl, ev.tips, ftip, 0, <<>>, <<>>)
    ELSE IF ftip \notin DOMAIN ev.tbl
    THEN Outcome("panic", ev.tbl, ev.tips, ftip, 0, <<>>, <<>>)
    ELSE LET rp == RemovePath(w.path, 1, blkid, MapRemove(ev.tbl, ftip)) IN
         IF rp.panic
         THEN Outcome("panic", rp.tbl, ev.tips, ftip, 0, <<>>, <<>>)
         ELSE IF w.path = <<>>
         THEN Outcome("panic", rp.tbl, ev.tips, blkid, 0, <<>>, <<>>)
         ELSE Outcome("Ok", rp.tbl, ev.tips, blkid, ftip, w.path, ev.evicted)

\* (UpdateFinalizedTipOutcomesBug: the finalized tip assigned before the check
\*  of line 130 instead of at line 181)
UpdateFinalizedTipOutcomesBug(blkid, tbl, tips, ftip) ==
    IF ~SanityCheckParentSeq(blkid, tbl, ftip)
    THEN {Outcome("MissingBlock", tbl, tips, blkid, 0, <<>>, <<>>)}
    ELSE UNION {{FinishFinalize(blkid, w, ev, ftip)
                    : ev \in EvictAll(w.to_evict, tbl, tips, <<>>)}
                  : w \in WalkToFinalized(blkid, <<>>, <<>>, tbl, ftip)}

\* update_finalized_tip(blkid): every outcome of the call
UpdateFinalizedTipOutcomes(blkid, tbl, tips, ftip) ==
    IF ~SanityCheckParentSeq(blkid, tbl, ftip)
    THEN {Outcome("MissingBlock", tbl, tips, ftip, 0, <<>>, <<>>)}
    ELSE UNION {{FinishFinalize(blkid, w, ev, ftip)
                    : ev \in EvictAll(w.to_evict, tbl, tips, <<>>)}
                  : w \in WalkToFinalized(blkid, <<>>, <<>>, tbl, ftip)}

\* FinalizeReport::prev_tip / new_tip / rejected
\* (NewTipBug: the last element of the list for the first)
PrevTip(report) == report.prev_tip
NewTipBug(report) ==
    IF report.finalized = <<>> THEN report.prev_tip
    ELSE report.finalized[Len(report.finalized)]
NewTip(report) ==
    IF report.finalized = <<>> THEN report.prev_tip
    ELSE report.finalized[1]
Rejected(report) == report.rejected

\* update_finalized_tip(blkid)
UpdateFinalizedTip(blkid) ==
    /\ TrackerAlive
    /\ \E o \in UpdateFinalizedTipOutcomes(blkid, pending_table, unfinalized_tips,
                                           finalized_tip) :
        /\ pending_table' = o.tbl
        /\ unfinalized_tips' = o.tips
        /\ finalized_tip' = o.ftip
        /\ treeOp' = [op |-> "finalize", blkid |-> blkid, res |-> o.res, ret |-> FALSE,
                      prev_tip |-> o.prev_tip, finalized |-> o.finalized,
                      rejected |-> o.rejected]
    /\ UNCHANGED <<headers, otherThanTree>>

NextTree ==
    \/ \E b \in Blocks : AttachBlock(b)
    \/ \E b \in Blocks : UpdateFinalizedTip(b)

----------------------------------------------------------------------------
\* Consensus state store: ConsensusStateStore / ConsensusStateProvider
\* (declared in crates/db/src/traits.rs)

\* ConsensusOutput: abstracted to the event it is the output of
NewConsensusOutput(ev) == [event |-> ev]

\* The output of the bootstrap state written at index 0 by the client init
BootstrapOutput == NewConsensusOutput("bootstrap")

\* ConsensusStateProvider::get_last_idx: Ok(the last written index), or the
\* error NotBootstrapped (None here) for a store never written to
CsGetLastIdx(cs) ==
    IF DOMAIN cs = {} THEN None ELSE Some(SetMax(DOMAIN cs))

\* ConsensusStateProvider::get_consensus_state
GetConsensusState(cs, idx) == IF idx \in DOMAIN cs THEN Some(cs[idx]) ELSE None

\* write_consensus_output: the checks made before the output is stored
\* (WriteOutputCheckBug: the same without the test for idx - 1)
WriteOutputCheckBug(cs, idx) ==
    IF idx \in DOMAIN cs THEN "Overwrite"
    ELSE "Ok"
WriteOutputCheck(cs, idx) ==
    IF idx \in DOMAIN cs THEN "Overwrite"
    ELSE IF idx > 0 /\ (idx - 1) \notin DOMAIN cs THEN "Gap"
    ELSE "Ok"

\* write_consensus_output: the store after the output is stored
\* (CsPutBug: the write is never made durable)
CsPutBug(cs, idx, output) == cs
CsPut(cs, idx, output) ==
    [k \in (DOMAIN cs) \cup {idx} |-> IF k = idx THEN output ELSE cs[k]]

NoCsOp == [op |-> "none", idx |-> 0, output |-> NewConsensusOutput(""), res |-> ""]

InitStore ==
    /\ cs_db = [k \in {} |-> NewConsensusOutput("")]
    /\ csOp = NoCsOp

\* The store as init_client_state leaves it: the bootstrap checkpoint at 0
InitStoreBootstrapped ==
    /\ cs_db = (0 :> BootstrapOutput)
    /\ csOp = NoCsOp

\* write_consensus_output(idx, output): the whole call
WriteConsensusOutput(idx, output) ==
    /\ LET res == WriteOutputCheck(cs_db, idx) IN
        /\ csOp' = [op |-> "write", idx |-> idx, output |-> output, res |-> res]
        /\ cs_db' = IF res = "Ok" THEN CsPut(cs_db, idx, output) ELSE cs_db
    /\ UNCHANGED otherThanStore

NextStore ==
    \E idx \in 0..MaxStateIdx, ev \in {"L2BlockRecv", "L2BlockExec"} :
        WriteConsensusOutput(idx, NewConsensusOutput(ev))

----------------------------------------------------------------------------
\* CSM worker: worker::consensus_worker_task, one thread (main.rs line 91)
\* reading csm_rx

InitWorker ==
    /\ wpc = "start"
    /\ last_applied = 0
    /\ wtarget = 0
    /\ published = None
    /\ outlog = <<>>
    /\ whi = 0
    /\ cancelledAppends = {}

\* WorkerState::open: the index of the last checkpoint, 0 for a store not
\* bootstrapped
WorkerStartIdx(cs) == UnwrapOr(CsGetLastIdx(cs), 0)

\* the test made on an EventInput(idx): dropped when already applied
WorkerDrops(idx, applied) == idx <= applied

\* the index applied next while catching up to the EventInput's idx
\* (WorkerNextIdxBug: the notified index alone is applied)
WorkerNextIdxBug(applied, target) == target
WorkerNextIdx(applied, target) == applied + 1

\* start of the worker task
WorkerOpen ==
    /\ wpc = "start"
    /\ last_applied' = WorkerStartIdx(cs_db)
    /\ whi' = WorkerStartIdx(cs_db)
    /\ wpc' = "recv"
    /\ UNCHANGED <<wtarget, published, outlog, cancelledAppends, storeVars,
                   journalVars, shimVars, treeVars, sideVars, submitVars>>

\* the worker takes the next EventInput(idx) off csm_rx
WorkerRecv ==
    /\ wpc = "recv"
    /\ csm_queue # <<>>
    /\ LET idx == Head(csm_queue) IN
        /\ csm_queue' = Tail(csm_queue)
        /\ whi' = IF idx > whi THEN idx ELSE whi
        /\ IF WorkerDrops(idx, last_applied)
           THEN UNCHANGED <<wpc, wtarget>>
           ELSE /\ wpc' = "apply"
                /\ wtarget' = idx
    /\ UNCHANGED <<last_applied, published, outlog, cancelledAppends, storeVars,
                   jobs, wst, resp, ppc, subOp, journalVars, treeVars, sideVars>>

\* one round of the catch-up loop: load event j, process it, apply the writes,
\* write_output(j, output).  A missing event or a failed write is fatal.
WorkerApply ==
    /\ wpc = "apply"
    /\ LET j == WorkerNextIdx(last_applied, wtarget)
           ev == GetSyncEvent(db, j)
           res == WriteOutputCheck(cs_db, j)
       IN  IF ev = None
           THEN /\ wpc' = "fatal"
                /\ UNCHANGED <<last_applied, outlog, storeVars>>
           ELSE /\ csOp' = [op |-> "write", idx |-> j,
                            output |-> NewConsensusOutput(Unwrap(ev)), res |-> res]
                /\ IF res = "Ok"
                   THEN /\ cs_db' = CsPut(cs_db, j, NewConsensusOutput(Unwrap(ev)))
                        /\ last_applied' = j
                        /\ outlog' = Append(outlog, j)
                        /\ wpc' = "publish"
                   ELSE /\ wpc' = "fatal"
                        /\ UNCHANGED <<cs_db, last_applied, outlog>>
    /\ UNCHANGED <<wtarget, published, whi, cancelledAppends,
                   journalVars, shimVars, treeVars, sideVars, submitVars>>

\* the new state is published on the watch channel; the loop goes on to the
\* next index or back to the queue
WorkerPublish ==
    /\ wpc = "publish"
    /\ published' = Some(last_applied)
    /\ wpc' = IF last_applied < wtarget THEN "apply" ELSE "recv"
    /\ UNCHANGED <<last_applied, wtarget, outlog, whi, cancelledAppends, storeVars,
                   journalVars, shimVars, treeVars, sideVars, submitVars>>

\* Events handed to the shim so far and not lost
Submitted ==
    Len(hist) + Len(jobs) + Cardinality({w \in PoolThreads : wst[w].pc # "idle"})

\* submit_event with a running worker; at most MaxSubmits events in one run
SubmitEventBounded(p, ev) ==
    /\ Submitted < MaxSubmits
    /\ SubmitEvent(p, ev)

\* The future of submit_event_async is dropped while it awaits: at line 46 with
\* the closure running on a pool thread, or holding the index and not having
\* sent EventInput yet (lines 46-48)
CancelSubmit(p) ==
    /\ ppc[p] = "wait"
    /\ IF resp[p] # None
       THEN /\ IsOkResp(resp[p])
            /\ cancelledAppends' = cancelledAppends \cup
                    {[idx |-> Unwrap(resp[p]),
                      ev |-> hist[SetMax({k \in 1..Len(hist) :
                                            hist[k].idx = Unwrap(resp[p])})].ev]}
            /\ resp' = [resp EXCEPT ![p] = None]
            /\ ppc' = [ppc EXCEPT ![p] = "idle"]
       ELSE /\ \E w \in PoolThreads : wst[w].pc # "idle" /\ wst[w].p = p
            /\ ppc' = [ppc EXCEPT ![p] = "cancelled"]
            /\ UNCHANGED <<resp, cancelledAppends>>
    /\ UNCHANGED <<jobs, wst, csm_queue, wpc, last_applied, wtarget, published,
                   outlog, whi, subOp, storeVars, journalVars, treeVars, sideVars>>

\* write_sync_event on the pool thread, lines 39-41 of db.rs, then the closure's
\* resp_tx.send fails because the receiver is gone (ctl.rs lines 105-107)
PoolPutDropped(w) ==
    /\ wst[w].pc = "put"
    /\ ppc[wst[w].p] = "cancelled"
    /\ db' = DbPut(db, wst[w].id, NewSyncEventWithTimestamp(wst[w].ev, now))
    /\ hist' = Append(hist, [idx |-> wst[w].id, ev |-> wst[w].ev])
    /\ lastOp' = [op |-> "append", ev |-> wst[w].ev, start |-> 0, end |-> 0,
                  res |-> "Ok", ret |-> wst[w].id]
    /\ cancelledAppends' = cancelledAppends \cup {[idx |-> wst[w].id, ev |-> wst[w].ev]}
    /\ ppc' = [ppc EXCEPT ![wst[w].p] = "idle"]
    /\ wst' = [wst EXCEPT ![w] = IdleThread]
    /\ UNCHANGED <<jobs, resp, csm_queue, now, cleared, wpc, last_applied, wtarget,
                   published, outlog, whi, subOp, storeVars, treeVars, sideVars>>

\* the worker task ends on a shutdown signal, between two events; csm_rx is
\* dropped with it
WorkerStop ==
    /\ wpc = "recv"
    /\ wpc' = "stopped"
    /\ UNCHANGED <<last_applied, wtarget, published, outlog, whi, cancelledAppends,
                   storeVars, journalVars, shimVars, treeVars, sideVars, submitVars>>

\* The process ends at any point after the worker was started (a crash or a
\* shutdown) and main_inner is run again: the journal and the state store are
\* kept; the channels, the pool, the producers and the worker are new
ProcessRestart ==
    /\ wpc # "start"
    /\ jobs' = <<>>
    /\ wst' = [w \in PoolThreads |-> IdleThread]
    /\ resp' = [p \in Producers |-> None]
    /\ ppc' = [p \in Producers |-> "idle"]
    /\ csm_queue' = <<>>
    /\ wpc' = "start"
    /\ last_applied' = 0
    /\ wtarget' = 0
    /\ published' = None
    /\ whi' = 0
    /\ UNCHANGED <<outlog, cancelledAppends, subOp, journalVars, storeVars, treeVars,
                   sideVars>>

\* The event a producer submits: each task feeds one kind of event
ProducerEvent(p) == IF p % 2 = 1 THEN "L2BlockRecv" ELSE "L2BlockExec"

NextWorker ==
    \/ \E p \in Producers : SubmitEventBounded(p, ProducerEvent(p))
    \/ \E w \in PoolThreads : PoolTake(w)
    \/ \E w \in PoolThreads : PoolRead(w)
    \/ \E w \in PoolThreads : PoolPut(w)
    \/ \E w \in PoolThreads : PoolPutDropped(w)
    \/ \E p \in Producers : SendEventInput(p)
    \/ \E p \in Producers : CancelSubmit(p)
    \/ WorkerOpen
    \/ WorkerRecv
    \/ WorkerApply
    \/ WorkerPublish

\* Submissions whose append can fail and whose worker can stop
NextSubmit ==
    \/ \E p \in Producers : SubmitEventBounded(p, ProducerEvent(p))
    \/ \E w \in PoolThreads : PoolTake(w)
    \/ \E w \in PoolThreads : PoolRead(w)
    \/ \E w \in PoolThreads : PoolPut(w)
    \/ \E w \in PoolThreads : PoolFail(w)
    \/ \E p \in Producers : SendEventInput(p)
    \/ \E p \in Producers : SendEventInputClosed(p)
    \/ \E p \in Producers : SubmitReturnErr(p)
    \/ WorkerOpen
    \/ WorkerRecv
    \/ WorkerApply
    \/ WorkerPublish
    \/ WorkerStop

\* Submissions and the worker, the process restarting at any point
NextRestart ==
    \/ \E p \in Producers : SubmitEventBounded(p, ProducerEvent(p))
    \/ \E w \in PoolThreads : PoolTake(w)
    \/ \E w \in PoolThreads : PoolRead(w)
    \/ \E w \in PoolThreads : PoolPut(w)
    \/ \E p \in Producers : SendEventInput(p)
    \/ WorkerOpen
    \/ WorkerRecv
    \/ WorkerApply
    \/ WorkerPublish
    \/ ProcessRestart

----------------------------------------------------------------------------
\* State transition: transition::process_event

\* SyncEvent as process_event matches on it
L1Block(height, l1blkid) == [kind |-> "L1Block", height |-> height, l1blkid |-> l1blkid]
L1DABatch(blkids) == [kind |-> "L1DABatch", blkids |-> blkids]
NewTipBlock(blkid) == [kind |-> "NewTipBlock", blkid |-> blkid]

\* ConsensusWrite and SyncAction
AcceptL1Block(l1blkid) == [w |-> "AcceptL1Block", id |-> l1blkid]
AcceptL2Block(blkid) == [w |-> "AcceptL2Block", id |-> blkid]
UpdateTip(blkid) == [a |-> "UpdateTip", id |-> blkid]

L2BlockIds == 1..NumL2Blocks
L1Heights == 1..NumL1Blocks

RECURSIVE SeqsUpTo(_, _)
SeqsUpTo(S, n) ==
    IF n = 0 THEN {<<>>}
    ELSE LET shorter == SeqsUpTo(S, n - 1) IN
         shorter \cup {Append(q, x) : q \in {r \in shorter : Len(r) = n - 1}, x \in S}

\* The events handed to process_event (the L1 block at height h has id h)
ProcessEvents ==
    {L1Block(h, h) : h \in L1Heights}
        \cup {L1DABatch(q) : q \in SeqsUpTo(L2BlockIds, MaxBatchLen)}
        \cup {NewTipBlock(b) : b \in L2BlockIds}

\* Result<ConsensusOutput, Error>: ConsensusOutput::new(writes, actions), or
\* Error::MissingL2Block(blkid)
ProcessOk(writes, actions) ==
    [res |-> "Ok", blkid |-> 0, writes |-> writes, actions |-> actions]
ProcessMissingL2Block(blkid) ==
    [res |-> "MissingL2Block", blkid |-> blkid, writes |-> <<>>, actions |-> <<>>]

\* The L1Block arm: the manifest is read (the L1 reader stored it before it
\* submitted the event) and not looked at
ProcessL1Block(height, l1blkid) == ProcessOk(<<AcceptL1Block(l1blkid)>>, <<>>)

\* The L1DABatch arm: the loop over blkids stops at the first id whose block
\* data is missing; nothing is pushed to writes or actions
RECURSIVE FirstMissing(_, _)
FirstMissing(blkids, store) ==
    IF blkids = <<>> THEN None
    ELSE IF Head(blkids) \notin store THEN Some(Head(blkids))
    ELSE FirstMissing(Tail(blkids), store)
ProcessL1DABatch(blkids, store) ==
    LET missing == FirstMissing(blkids, store) IN
    IF IsSome(missing) THEN ProcessMissingL2Block(Unwrap(missing))
    ELSE ProcessOk(<<>>, <<>>)

\* The NewTipBlock arm
\* (ProcessNewTipBlockBug: the same without the lookup of the block data)
ProcessNewTipBlockBug(blkid, store) ==
    ProcessOk(<<AcceptL2Block(blkid)>>, <<UpdateTip(blkid)>>)
ProcessNewTipBlock(blkid, store) ==
    IF blkid \notin store THEN ProcessMissingL2Block(blkid)
    ELSE ProcessOk(<<AcceptL2Block(blkid)>>, <<UpdateTip(blkid)>>)

\* process_event(state, ev, database, params): state and params are not read
ProcessEvent(ev, store) ==
    CASE ev.kind = "L1Block" -> ProcessL1Block(ev.height, ev.l1blkid)
      [] ev.kind = "L1DABatch" -> ProcessL1DABatch(ev.blkids, store)
      [] ev.kind = "NewTipBlock" -> ProcessNewTipBlock(ev.blkid, store)

NoProcOp == [ev |-> L1DABatch(<<>>), out |-> ProcessOk(<<>>, <<>>), idx |-> 0]

InitProcess ==
    /\ l2_store = {}
    /\ procOp = NoProcOp

\* L2DataStore::put_block_data: the block data of blkid is stored
PutBlockData(blkid) ==
    /\ blkid \notin l2_store
    /\ l2_store' = l2_store \cup {blkid}
    /\ UNCHANGED <<procOp, storeVars, otherThanProcess>>

\* One event applied: process_event on it and, when it returns Ok, the output
\* written at the index after the last checkpoint
ProcessAndWrite(ev) ==
    /\ UnwrapOr(CsGetLastIdx(cs_db), 0) < MaxProcIdx
    /\ LET out == ProcessEvent(ev, l2_store)
           idx == UnwrapOr(CsGetLastIdx(cs_db), 0) + 1
           output == [writes |-> out.writes, actions |-> out.actions] IN
        /\ procOp' = [ev |-> ev, out |-> out, idx |-> idx]
        /\ IF out.res = "Ok" /\ WriteOutputCheck(cs_db, idx) = "Ok"
           THEN cs_db' = CsPut(cs_db, idx, output)
           ELSE cs_db' = cs_db
    /\ UNCHANGED <<l2_store, csOp, otherThanProcess>>

NextProcess ==
    \/ \E blkid \in L2BlockIds : PutBlockData(blkid)
    \/ \E ev \in ProcessEvents : ProcessAndWrite(ev)

----------------------------------------------------------------------------
\* L1 writer: btcio/src/writer/task.rs

\* BlobL1Status
BlobStatuses ==
    {"Unsigned", "NeedsResign", "Unpublished", "Published", "Confirmed", "Finalized", "Excluded"}

\* L1TxStatus; the heights of Confirmed and Finalized are not modelled, and
\* the ExcludeReason is MissingInputsOrSpent or any other one
ExcludedMissingInputsOrSpent == "Excluded(MissingInputsOrSpent)"
ExcludedOther == "Excluded(Other)"
TxStatuses ==
    {"Unpublished", "Published", "Confirmed", "Finalized",
     ExcludedMissingInputsOrSpent, ExcludedOther}

\* Buf32::zero(), the txids of an unsigned blob entry
ZeroTxid == 0

BlobEntry(status, commit_txid, reveal_txid) ==
    [status |-> status, commit_txid |-> commit_txid, reveal_txid |-> reveal_txid]

\* BlobEntry::new_unsigned
NewUnsigned == BlobEntry("Unsigned", ZeroTxid, ZeroTxid)

\* get_next_blob_idx, get_blob_entry_by_idx, get_tx_entry_by_id
GetNextBlobIdx(bs) == Cardinality(DOMAIN bs)
GetBlobEntryByIdx(bs, idx) == IF idx \in DOMAIN bs THEN Some(bs[idx]) ELSE None
GetTxEntryById(bc, txid) == IF txid \in DOMAIN bc THEN Some(bc[txid]) ELSE None

\* determine_blob_next_status
\* (DetermineCommitFirstBug: the arm of an excluded commit tested before the
\*  arms of the reveal; DetermineAnyExcludedBug: every excluded commit asks
\*  for a new signature)
DetermineCommitFirstBug(ctx, rtx, curr_status) ==
    IF ctx = ExcludedMissingInputsOrSpent THEN "NeedsResign"
    ELSE IF rtx = "Finalized" THEN "Finalized"
    ELSE IF rtx = "Confirmed" THEN "Confirmed"
    ELSE IF rtx = "Published" THEN "Published"
    ELSE curr_status
DetermineAnyExcludedBug(ctx, rtx, curr_status) ==
    IF rtx = "Finalized" THEN "Finalized"
    ELSE IF rtx = "Confirmed" THEN "Confirmed"
    ELSE IF rtx = "Published" THEN "Published"
    ELSE IF ctx \in {ExcludedMissingInputsOrSpent, ExcludedOther} THEN "NeedsResign"
    ELSE curr_status
DetermineBlobNextStatus(ctx, rtx, curr_status) ==
    IF rtx = "Finalized" THEN "Finalized"
    ELSE IF rtx = "Confirmed" THEN "Confirmed"
    ELSE IF rtx = "Published" THEN "Published"
    ELSE IF ctx = ExcludedMissingInputsOrSpent THEN "NeedsResign"
    ELSE IF ctx = ExcludedOther THEN curr_status
    ELSE curr_status

\* check_and_update_blobentry_status, lines 188-196: the first branch of the
\* if-else chain (LastPublishedAlwaysBug: taken whatever the status)
LastPublishedAlwaysBug(l1, status, reveal_txid) == Some(reveal_txid)
LastPublishedAfter(l1, status, reveal_txid) ==
    IF status = "Published" \/ status = "Confirmed" \/ status = "Finalized"
    THEN Some(reveal_txid)
    ELSE l1

\* The second branch of the chain, entered only when the first is not
\* (CursorAfterStatusLive: the increment reached for Confirmed and Finalized)
CursorAfterStatusLive(idx, status) ==
    IF status = "Finalized" \/ status = "Confirmed" THEN idx + 1 ELSE idx
CursorAfterStatus(idx, status) ==
    IF status = "Published" \/ status = "Confirmed" \/ status = "Finalized"
    THEN idx
    ELSE IF status = "Finalized" \/ status = "Confirmed" THEN idx + 1
    ELSE idx

\* watcher_task, the else arm of the lookup of the blob entry
\* (CursorAfterAbsentBug: the watcher moves on)
CursorAfterAbsentBug(idx) == idx + 1
CursorAfterAbsent(idx) == idx

\* update_entry
UpdateEntry(bs, idx, updated_entry) == [bs EXCEPT ![idx] = updated_entry]

\* The txids create_and_sign_blob_inscriptions returns: two ids new to the
\* broadcast database
NewCommitTxid(bc) == Cardinality(DOMAIN bc) + 1
NewRevealTxid(bc) == Cardinality(DOMAIN bc) + 2

NoPollOp ==
    [idx |-> 0, old |-> "", ctx |-> "", rtx |-> "", new |-> "", signing |-> ""]
PollOpOf(idx, old, commit_tx, reveal_tx, new, signing) ==
    [idx |-> idx, old |-> old, ctx |-> UnwrapOr(commit_tx, "None"),
     rtx |-> UnwrapOr(reveal_tx, "None"), new |-> new, signing |-> signing]

\* The writer at startup over an empty blob store: get_next_blobidx_to_watch
\* returns 0
InitWriter ==
    /\ blobs = [i \in {} |-> NewUnsigned]
    /\ bcast = [t \in {} |-> "Unpublished"]
    /\ curr_blobidx = 0
    /\ l1_status = None
    /\ watcher = "running"
    /\ pollOp = NoPollOp

\* get_next_blobidx_to_watch: the loop, from next_idx downwards
\* (WalkBackBug: the walk stops on the Finalized entry, not after it)
RECURSIVE WalkBackBug(_, _)
WalkBackBug(bs, next_idx) ==
    IF next_idx > 0
    THEN LET blob == GetBlobEntryByIdx(bs, next_idx - 1) IN
         IF blob = None THEN next_idx
         ELSE IF Unwrap(blob).status = "Finalized" THEN next_idx - 1
         ELSE WalkBackBug(bs, next_idx - 1)
    ELSE next_idx
RECURSIVE WalkBack(_, _)
WalkBack(bs, next_idx) ==
    IF next_idx > 0
    THEN LET blob == GetBlobEntryByIdx(bs, next_idx - 1) IN
         IF blob = None THEN next_idx
         ELSE IF Unwrap(blob).status = "Finalized" THEN next_idx
         ELSE WalkBack(bs, next_idx - 1)
    ELSE next_idx

\* get_next_blobidx_to_watch
GetNextBlobidxToWatch(bs) == WalkBack(bs, GetNextBlobIdx(bs))

\* The blob stores a writer can be started over: n entries at the indices
\* 0..n-1, of any status, the signed ones with their own two txids
StoredEntry(i, status) ==
    IF status = "Unsigned" THEN NewUnsigned
    ELSE BlobEntry(status, 2 * i + 1, 2 * i + 2)
StoredBlobs ==
    UNION {{[i \in 0..(n - 1) |-> StoredEntry(i, st[i])] :
                st \in [0..(n - 1) -> BlobStatuses]} : n \in 0..MaxBlobs}
StoredTxids(bs) ==
    UNION {{bs[i].commit_txid, bs[i].reveal_txid} : i \in DOMAIN bs} \ {ZeroTxid}

\* The writer before start_inscription_tasks, over a blob store left by an
\* earlier run
InitWriterStored ==
    /\ blobs \in StoredBlobs
    /\ bcast = [t \in StoredTxids(blobs) |-> "Unpublished"]
    /\ curr_blobidx = 0
    /\ l1_status = None
    /\ watcher = "starting"
    /\ pollOp = NoPollOp

\* start_inscription_tasks: the cursor is computed and watcher_task spawned
StartInscriptionTasks ==
    /\ watcher = "starting"
    /\ curr_blobidx' = GetNextBlobidxToWatch(blobs)
    /\ watcher' = "running"
    /\ UNCHANGED <<blobs, bcast, l1_status, pollOp, otherThanWriter>>

\* InscriptionHandle::submit_intent with a commitment not seen before
SubmitIntent ==
    /\ watcher = "running"
    /\ GetNextBlobIdx(blobs) < MaxBlobs
    /\ blobs' = (GetNextBlobIdx(blobs) :> NewUnsigned) @@ blobs
    /\ UNCHANGED <<bcast, curr_blobidx, l1_status, watcher, pollOp, otherThanWriter>>

\* The broadcaster task records a new status of the commit or the reveal
\* transaction of the blob under watch, when the poll of that blob looks at
\* the statuses (the changes no later poll depends on are left out)
BroadcasterUpdate(reveal, status) ==
    /\ watcher = "running"
    /\ curr_blobidx \in DOMAIN blobs
    /\ blobs[curr_blobidx].status \in {"Published", "Confirmed", "Unpublished"}
    /\ LET txid == IF reveal THEN blobs[curr_blobidx].reveal_txid
                   ELSE blobs[curr_blobidx].commit_txid IN
        /\ txid \in DOMAIN bcast
        /\ bcast[txid] # status
        /\ bcast' = [bcast EXCEPT ![txid] = status]
    /\ UNCHANGED <<blobs, curr_blobidx, l1_status, watcher, pollOp, otherThanWriter>>

\* handle_signing: create_and_sign_blob_inscriptions puts the two signed
\* transactions in the broadcast database and returns their ids, or fails; a
\* failure leaves watcher_task through the ? of line 141 and the unwrap of
\* line 77 ends the task
HandleSigning(blobentry, commit_tx, reveal_tx, signed) ==
    IF signed
    THEN LET cid == NewCommitTxid(bcast)
             rid == NewRevealTxid(bcast) IN
         /\ bcast' = (cid :> "Unpublished") @@ (rid :> "Unpublished") @@ bcast
         /\ blobs' = UpdateEntry(blobs, curr_blobidx, BlobEntry("Unpublished", cid, rid))
         /\ pollOp' = PollOpOf(curr_blobidx, blobentry.status, commit_tx, reveal_tx,
                               "Unpublished", "signed")
         /\ UNCHANGED <<curr_blobidx, l1_status, watcher>>
    ELSE /\ watcher' = "failed"
         /\ pollOp' = PollOpOf(curr_blobidx, blobentry.status, commit_tx, reveal_tx,
                               blobentry.status, "failed")
         /\ UNCHANGED <<blobs, bcast, curr_blobidx, l1_status>>

\* check_and_update_blobentry_status
CheckAndUpdateBlobentryStatus(blobentry, commit_tx, reveal_tx) ==
    IF IsSome(commit_tx) /\ IsSome(reveal_tx)
    THEN LET status == DetermineBlobNextStatus(Unwrap(commit_tx), Unwrap(reveal_tx),
                                               blobentry.status)
             idx == CursorAfterStatus(curr_blobidx, status) IN
         /\ l1_status' = LastPublishedAfter(l1_status, status, blobentry.reveal_txid)
         /\ curr_blobidx' = idx
         /\ IF idx \in DOMAIN blobs
            THEN /\ blobs' = UpdateEntry(blobs, idx, [blobentry EXCEPT !.status = status])
                 /\ watcher' = watcher
            ELSE /\ blobs' = blobs
                 /\ watcher' = "failed"
         /\ pollOp' = PollOpOf(curr_blobidx, blobentry.status, commit_tx, reveal_tx,
                               status, "")
         /\ UNCHANGED bcast
    ELSE /\ pollOp' = PollOpOf(curr_blobidx, blobentry.status, commit_tx, reveal_tx,
                               blobentry.status, "")
         /\ UNCHANGED <<blobs, bcast, curr_blobidx, l1_status, watcher>>

\* One turn of the loop of watcher_task after the tick
WatcherPoll ==
    /\ watcher = "running"
    /\ LET entry == GetBlobEntryByIdx(blobs, curr_blobidx) IN
       IF IsSome(entry)
       THEN LET blobentry == Unwrap(entry)
                commit_tx == GetTxEntryById(bcast, blobentry.commit_txid)
                reveal_tx == GetTxEntryById(bcast, blobentry.reveal_txid) IN
            CASE blobentry.status \in {"Unsigned", "NeedsResign"} ->
                    \E signed \in BOOLEAN :
                        /\ signed => Cardinality(DOMAIN bcast) < 2 * MaxSignings
                        /\ HandleSigning(blobentry, commit_tx, reveal_tx, signed)
              [] blobentry.status \in {"Finalized", "Excluded"} ->
                    /\ curr_blobidx' = curr_blobidx + 1
                    /\ pollOp' = PollOpOf(curr_blobidx, blobentry.status, commit_tx,
                                          reveal_tx, blobentry.status, "")
                    /\ UNCHANGED <<blobs, bcast, l1_status, watcher>>
              [] blobentry.status \in {"Published", "Confirmed", "Unpublished"} ->
                    CheckAndUpdateBlobentryStatus(blobentry, commit_tx, reveal_tx)
       ELSE /\ curr_blobidx' = CursorAfterAbsent(curr_blobidx)
            /\ pollOp' = PollOpOf(curr_blobidx, "Absent", None, None, "Absent", "")
            /\ UNCHANGED <<blobs, bcast, l1_status, watcher>>
    /\ UNCHANGED otherThanWriter

NextWriter ==
    \/ SubmitIntent
    \/ \E reveal \in BOOLEAN, status \in TxStatuses : BroadcasterUpdate(reveal, status)
    \/ WatcherPoll

----------------------------------------------------------------------------
\* Client init: consensus-logic/src/genesis.rs

\* RollupParams.horizon_l1_height / genesis_l1_height
ParamHeights == 1..MaxParamHeight

\* ClientState::from_genesis_params
FromGenesisParams(horizon_l1_height, genesis_l1_height) ==
    [horizon |-> horizon_l1_height, genesis |-> genesis_l1_height]

\* L2DataProvider::get_blocks_at_height(0): the genesis block is the one
\* block of height 0
GetBlocksAtHeight0(store) == store \cap {GenesisBlkid}

\* check_needs_client_init
\* (CheckNeedsClientInitBug: the genesis block is not looked for)
CheckNeedsClientInitBug(cs, store) == CsGetLastIdx(cs) = None
CheckNeedsClientInit(cs, store) ==
    IF CsGetLastIdx(cs) = None THEN TRUE
    ELSE IF GetBlocksAtHeight0(store) = {} THEN TRUE
    ELSE FALSE

\* check_needs_client_init called
CheckNeedsClientInitCall ==
    /\ csOp' = [op |-> "check_needs_client_init", idx |-> 0,
                output |-> FromGenesisParams(0, 0),
                res |-> IF CheckNeedsClientInit(cs_db, l2_store) THEN "true" ELSE "false"]
    /\ UNCHANGED <<cs_db, journalVars, shimVars, treeVars, workerVars, submitVars, sideVars>>

\* init_client_state(params, database): the checkpoint of the initial client
\* state is written at index 0, and the error of the store is returned
InitClientState(horizon_l1_height, genesis_l1_height) ==
    /\ LET init_state == FromGenesisParams(horizon_l1_height, genesis_l1_height)
           res == WriteOutputCheck(cs_db, 0) IN
        /\ csOp' = [op |-> "init_client_state", idx |-> 0, output |-> init_state,
                    res |-> res]
        /\ cs_db' = IF res = "Ok" THEN CsPut(cs_db, 0, init_state) ELSE cs_db
    /\ UNCHANGED <<journalVars, shimVars, treeVars, workerVars, submitVars, sideVars>>

\* init_genesis_chainstate, the L1 manifests from the horizon to the genesis
\* height being there: the genesis block is put in the L2 store
InitGenesisChainstate ==
    /\ GenesisBlkid \notin l2_store
    /\ l2_store' = l2_store \cup {GenesisBlkid}
    /\ UNCHANGED <<procOp, storeVars, otherThanProcess>>

NextGenesis ==
    \/ CheckNeedsClientInitCall
    \/ \E h \in ParamHeights, g \in ParamHeights : InitClientState(h, g)
    \/ InitGenesisChainstate

----------------------------------------------------------------------------
\* Specifications

\* The sequential journal: one caller making write_sync_event and
\* clear_sync_event calls one at a time (as the unit tests of db.rs do).
\* The tracker is a fresh new_empty(GenesisBlkid) over one fixed set of headers.
InitTreeIdle ==
    /\ headers = [b \in Blocks |-> b - 1]
    /\ finalized_tip = GenesisBlkid
    /\ pending_table = (GenesisBlkid :> BlockEntry(ZeroBlkid, {}))
    /\ unfinalized_tips = {GenesisBlkid}
    /\ treeOp = NoTreeOp

InitSide == InitProcess /\ InitWriter
InitSeq ==
    InitJournal /\ InitShim /\ InitTreeIdle /\ InitStore /\ InitWorker /\ InitSide
SpecJournal == InitSeq /\ [][NextJournal]_vars

\* Producers submitting through the shim, the appends running on pool threads.
SpecShim == InitSeq /\ [][NextShim]_vars

\* The tracker driven by attach_block and update_finalized_tip calls.
InitTracker ==
    InitJournal /\ InitShim /\ InitTree /\ InitStore /\ InitWorker /\ InitSide
SpecTree == InitTracker /\ [][NextTree]_vars

\* The state store driven by write_consensus_output calls, from a store never
\* written to.
SpecStore == InitSeq /\ [][NextStore]_vars

\* Producers submitting through the shim (and cancelling), the appends running
\* on pool threads, and the worker applying the events; the store holds the
\* bootstrap checkpoint.
InitRunning ==
    /\ InitJournal /\ InitShim /\ InitTreeIdle /\ InitStoreBootstrapped /\ InitWorker
    /\ InitSide
SpecWorker == InitRunning /\ [][NextWorker]_vars

\* The same with failing appends and a worker that can stop, no cancellation.
SpecSubmit == InitRunning /\ [][NextSubmit]_vars

\* process_event applied to events one after the other, the outputs written
\* to a bootstrapped state store, while L2 block data arrives.
SpecProcess == InitRunning /\ [][NextProcess]_vars

\* The watcher of the L1 writer polling, with intents submitted and the
\* broadcaster recording the fate of the transactions.
SpecWriter == InitRunning /\ [][NextWriter]_vars

\* The writer started over a blob store that already holds entries; intents
\* are submitted once it runs.
InitStartup ==
    /\ InitJournal /\ InitShim /\ InitTreeIdle /\ InitStoreBootstrapped /\ InitWorker
    /\ InitProcess /\ InitWriterStored
NextStartup == StartInscriptionTasks \/ SubmitIntent
SpecStartup == InitStartup /\ [][NextStartup]_vars

\* The client init calls made over an empty database.
SpecGenesis == InitSeq /\ [][NextGenesis]_vars

\* Producers, pool and worker as in SpecWorker, without cancellation, the
\* process being restarted at any point.
SpecRestart == InitRunning /\ [][NextRestart]_vars

----------------------------------------------------------------------------
\* Properties of the journal

Returned == {hist[k].idx : k \in 1..Len(hist)}

\* C1: with appends made one at a time from an empty journal, the k-th append
\* returns index k (the first returns 1), last_index() is None before the first
\* append and equals the index just returned after every append.
C1_AppendAssignsNext ==
    /\ \A k \in 1..Len(hist) : hist[k].idx = k
    /\ (hist = <<>> => GetLastIdx(db) = None)
    /\ (lastOp.op = "append" =>
            /\ lastOp.ret = Len(hist)
            /\ GetLastIdx(db) = Some(lastOp.ret))

C1_Witness ==
    /\ Len(hist) = 3
    /\ lastOp.op = "append"
    /\ lastOp.ret = 3
    /\ hist[1].idx = 1

\* C2: under concurrent submission every append that returned Ok got a distinct
\* index, larger than those returned before it, and its event is the one stored
\* at that index: none is overwritten or lost.
C2_SerializationPoint ==
    /\ \A j, k \in 1..Len(hist) : j < k => hist[j].idx < hist[k].idx
    /\ \A k \in 1..Len(hist) : GetSyncEvent(db, hist[k].idx) = Some(hist[k].ev)

\* C3 as claimed: the present indices are exactly 1..N for some N >= 0.
C3_Density == DOMAIN db = 1..Cardinality(DOMAIN db)

\* C3 amended: the present indices are exactly 1..N, N = last_index() (0 when
\* it is None), less the indices that successful clear_range calls removed;
\* the journal is never empty once an append has returned (so with appends
\* alone the set is exactly 1..N).
C3_DensityUpToCleared ==
    /\ DOMAIN db = (1..UnwrapOr(GetLastIdx(db), 0)) \ cleared
    /\ (hist # <<>> => GetLastIdx(db) # None)

C3_Witness ==
    /\ cleared = {2}
    /\ DOMAIN db = {1, 3}

\* C4: the event an append stored at the index it returned is what get returns
\* for that index, also after any later appends (as long as no clear_range
\* removed the index); get of an index never assigned returns None.
C4_RoundTrip ==
    /\ \A k \in 1..Len(hist) :
            hist[k].idx \notin cleared =>
                GetSyncEvent(db, hist[k].idx) = Some(hist[k].ev)
    /\ \A i \in 0..MaxIdx : i \notin Returned => GetSyncEvent(db, i) = None

\* C5: a successful clear_range(start, end) removes exactly the indices in
\* [start, end): afterwards get returns None for them, and for every other
\* index get and get_timestamp return what they returned before; last_index()
\* is unchanged.
C5_ClearFrame ==
    [][(lastOp'.op = "clear" /\ lastOp'.res = "Ok") =>
          /\ \A i \in 0..MaxIdx :
                IF lastOp'.start <= i /\ i < lastOp'.end
                THEN GetSyncEvent(db', i) = None
                ELSE /\ GetSyncEvent(db', i) = GetSyncEvent(db, i)
                     /\ GetEventTimestamp(db', i) = GetEventTimestamp(db, i)
          /\ GetLastIdx(db') = GetLastIdx(db)]_vars

\* S6: clear_range(2,4) on a 5-event journal
C5_Witness ==
    /\ lastOp.op = "clear" /\ lastOp.res = "Ok"
    /\ lastOp.start = 2 /\ lastOp.end = 4
    /\ Len(hist) = 5
    /\ DOMAIN db = {1, 4, 5}
    /\ GetLastIdx(db) = Some(5)

\* C6: clear_range(start, end) fails with BadRange when start >= end, else with
\* EmptyJournal when the journal is empty, else with BeyondTip when
\* end > last_index(); a failing call deletes nothing and leaves the journal as
\* it was.
C6_ClearErrors ==
    [][lastOp'.op = "clear" =>
          LET s == lastOp'.start
              e == lastOp'.end
              last == GetLastIdx(db)
          IN  /\ (s >= e => lastOp'.res = ErrBadRange)
              /\ (s < e /\ last = None => lastOp'.res = ErrEmptyJournal)
              /\ (s < e /\ last # None /\ e > UnwrapOr(last, 0) => lastOp'.res = ErrBeyondTip)
              /\ (lastOp'.res # "Ok" => db' = db)]_vars

C6_Witness ==
    /\ lastOp.op = "clear"
    /\ lastOp.res = ErrBadRange
    /\ lastOp.start = lastOp.end
    /\ Len(hist) = 5
    /\ DOMAIN db = 1..5

----------------------------------------------------------------------------
\* Properties of the unfinalized block tracker

\* a is an ancestor of x by the parent pointers of tbl
RECURSIVE IsAncestor(_, _, _)
IsAncestor(a, x, tbl) ==
    /\ x \in DOMAIN tbl
    /\ \/ tbl[x].parent = a
       \/ IsAncestor(a, tbl[x].parent, tbl)

Descendants(S, tbl) == {x \in DOMAIN tbl : \E a \in S : IsAncestor(a, x, tbl)}

\* The parent path from ftip (exclusive) up to b (inclusive), oldest first
RECURSIVE ParentPath(_, _, _)
ParentPath(b, tbl, ftip) ==
    IF b = ftip THEN <<>>
    ELSE Append(ParentPath(tbl[b].parent, tbl, ftip), b)

NoDuplicates(q) == \A i, j \in 1..Len(q) : i # j => q[i] # q[j]

\* The step is a call finalize_tip(b) with b reachable from, and different
\* from, the finalized tip
FinalizeCall(b) ==
    /\ treeOp'.op = "finalize"
    /\ treeOp'.blkid = b
    /\ b # finalized_tip
    /\ SanityCheckParentSeq(b, pending_table, finalized_tip)

\* C7: finalize_tip(b), b reachable from and different from the finalized tip,
\* returns prev_tip = the finalized tip before the call and finalized = the
\* parent path from the old tip (exclusive) to b (inclusive), oldest first.
C7_FinalizedPath ==
    [][\A b \in Blocks : FinalizeCall(b) =>
            /\ treeOp'.res = "Ok"
            /\ treeOp'.prev_tip = finalized_tip
            /\ treeOp'.finalized = ParentPath(b, pending_table, finalized_tip)]_vars

\* C8: the rejected list of a report is, as a set and without duplicates, the
\* children of path blocks that are off the path, with all their descendants;
\* it holds neither b, nor a path block, nor a descendant of b (so the children
\* meant are those of the path blocks below b).
C8_RejectedSet ==
    [][\A b \in Blocks : (FinalizeCall(b) /\ treeOp'.res = "Ok") =>
            LET path == SeqToSet(ParentPath(b, pending_table, finalized_tip))
                off == {c \in DOMAIN pending_table :
                            c \notin path /\ pending_table[c].parent \in path \ {b}}
                rej == SeqToSet(treeOp'.rejected)
            IN  /\ NoDuplicates(treeOp'.rejected)
                /\ rej = off \cup Descendants(off, pending_table)
                /\ rej \cap (path \cup Descendants({b}, pending_table)) = {}]_vars

\* C9: after a successful finalize_tip(b) the finalized tip is b, the table
\* holds exactly b and what were the descendants of b, the tips are the leaves
\* among them, and every entry that left the table is reported as finalized,
\* rejected or prev_tip.
C9_TreeAfterFinalize ==
    [][\A b \in Blocks : (FinalizeCall(b) /\ treeOp'.res = "Ok") =>
            /\ finalized_tip' = b
            /\ DOMAIN pending_table' = {b} \cup Descendants({b}, pending_table)
            /\ unfinalized_tips' =
                    {x \in DOMAIN pending_table' : pending_table'[x].children = {}}
            /\ \A x \in (DOMAIN pending_table) \ (DOMAIN pending_table') :
                    \/ x \in SeqToSet(treeOp'.finalized)
                    \/ x \in SeqToSet(treeOp'.rejected)
                    \/ x = treeOp'.prev_tip]_vars

\* C10: every entry of the pending table reaches the finalized tip by following
\* parent pointers.
C10_TreeReachability ==
    TrackerAlive =>
        \A x \in DOMAIN pending_table :
            SanityCheckParentSeq(x, pending_table, finalized_tip)

\* C11: the tips are exactly the entries without children, they are the
\* finalized tip alone exactly when the table holds no other block, and the set
\* of tips is never empty.
C11_TipsAreLeaves ==
    TrackerAlive =>
        /\ unfinalized_tips =
                {x \in DOMAIN pending_table : pending_table[x].children = {}}
        /\ (unfinalized_tips = {finalized_tip}
                <=> DOMAIN pending_table \subseteq {finalized_tip})
        /\ unfinalized_tips # {}

\* The step is a call attach(b, header)
AttachCall(b) ==
    /\ treeOp'.op = "attach"
    /\ treeOp'.blkid = b

\* C12: attach(b, header) with b not an entry and header.parent an entry
\* inserts the entry b with that parent and no children, adds b to the
\* parent's children, replaces the parent by b in the tips, leaves the
\* finalized tip and every other entry alone, and returns true exactly when
\* the parent was not a tip before the call.
C12_AttachInserts ==
    [][\A b \in Blocks :
        (AttachCall(b) /\ b \notin DOMAIN pending_table
                       /\ headers[b] \in DOMAIN pending_table) =>
            LET p == headers[b] IN
            /\ treeOp'.res = "Ok"
            /\ DOMAIN pending_table' = (DOMAIN pending_table) \cup {b}
            /\ pending_table'[b] = BlockEntry(p, {})
            /\ pending_table'[p] =
                    BlockEntry(pending_table[p].parent, pending_table[p].children \cup {b})
            /\ \A x \in (DOMAIN pending_table) \ {p} : pending_table'[x] = pending_table[x]
            /\ p \notin unfinalized_tips'
            /\ b \in unfinalized_tips'
            /\ unfinalized_tips' \ {b} = unfinalized_tips \ {p}
            /\ finalized_tip' = finalized_tip
            /\ treeOp'.ret = (p \notin unfinalized_tips)]_vars

\* an attach that forked off a block with a child already
C12_Witness ==
    /\ treeOp.op = "attach"
    /\ treeOp.res = "Ok"
    /\ treeOp.ret = TRUE
    /\ Cardinality(pending_table[headers[treeOp.blkid]].children) = 2
    /\ Cardinality(unfinalized_tips) = 2

\* C13: attach(b, header) fails with AlreadyAttached when b is an entry
\* (whatever its parent), else with MissingParent when header.parent is not an
\* entry; a failed attach leaves the table, the children sets, the tips and the
\* finalized tip as they were.
C13_AttachErrors ==
    [][\A b \in Blocks : AttachCall(b) =>
            /\ (b \in DOMAIN pending_table => treeOp'.res = "BlockAlreadyAttached")
            /\ (b \notin DOMAIN pending_table /\ headers[b] \notin DOMAIN pending_table
                    => treeOp'.res = "AttachMissingParent")
            /\ (treeOp'.res # "Ok" =>
                    /\ pending_table' = pending_table
                    /\ unfinalized_tips' = unfinalized_tips
                    /\ finalized_tip' = finalized_tip)]_vars

\* a second attach of a child of the finalized tip, made when the tree holds
\* other blocks
C13_Witness ==
    /\ treeOp.op = "attach"
    /\ treeOp.res = "BlockAlreadyAttached"
    /\ headers[treeOp.blkid] = finalized_tip
    /\ Cardinality(DOMAIN pending_table) >= 3

\* C14: finalize_tip(b) for a block b the parent pointers do not lead from to
\* the finalized tip fails with MissingBlock and leaves the table, the tips
\* and the finalized tip as they were.
C14_FinalizeMissingBlock ==
    [][\A b \in Blocks :
        (treeOp'.op = "finalize" /\ treeOp'.blkid = b
            /\ ~SanityCheckParentSeq(b, pending_table, finalized_tip)) =>
            /\ treeOp'.res = "MissingBlock"
            /\ pending_table' = pending_table
            /\ unfinalized_tips' = unfinalized_tips
            /\ finalized_tip' = finalized_tip]_vars

\* finalize_tip of a block finalized past, on a tree that holds pending blocks
C14_Witness ==
    /\ treeOp.op = "finalize"
    /\ treeOp.res = "MissingBlock"
    /\ treeOp.blkid = GenesisBlkid
    /\ finalized_tip # GenesisBlkid
    /\ Cardinality(DOMAIN pending_table) >= 2

\* C15: on new_empty(g) followed by the attach of one block b, child of g,
\* finalize_tip(b) returns prev_tip = g, finalized = [b], rejected = [], and
\* leaves b the finalized tip, the only entry and the only tip.
C15_SingleBlockLaw ==
    [][\A b \in Blocks \ {GenesisBlkid} :
        (/\ finalized_tip = GenesisBlkid
         /\ DOMAIN pending_table = {GenesisBlkid, b}
         /\ pending_table[b].parent = GenesisBlkid
         /\ treeOp'.op = "finalize"
         /\ treeOp'.blkid = b) =>
            /\ treeOp'.res = "Ok"
            /\ PrevTip(treeOp') = GenesisBlkid
            /\ treeOp'.finalized = <<b>>
            /\ Rejected(treeOp') = <<>>
            /\ finalized_tip' = b
            /\ DOMAIN pending_table' = {b}
            /\ unfinalized_tips' = {b}]_vars

C15_Witness ==
    /\ treeOp.op = "finalize"
    /\ treeOp.res = "Ok"
    /\ treeOp.prev_tip = GenesisBlkid
    /\ treeOp.finalized = <<treeOp.blkid>>
    /\ treeOp.rejected = <<>>
    /\ DOMAIN pending_table = {treeOp.blkid}
    /\ unfinalized_tips = {treeOp.blkid}

\* C16: the finalized list of every report finalize_tip(b) returns runs from
\* the newest block to the oldest (each element the parent of the one before,
\* the last a child of the old tip), new_tip() is its first element and equals
\* b, prev_tip() is the finalized tip before the call and differs from
\* new_tip().
C16_ReportNewestFirst ==
    [][\A b \in Blocks :
        (treeOp'.op = "finalize" /\ treeOp'.blkid = b /\ treeOp'.res = "Ok") =>
            LET fin == treeOp'.finalized IN
            /\ fin # <<>>
            /\ \A i \in 1..(Len(fin) - 1) : pending_table[fin[i]].parent = fin[i + 1]
            /\ pending_table[fin[Len(fin)]].parent = finalized_tip
            /\ NewTip(treeOp') = fin[1]
            /\ NewTip(treeOp') = b
            /\ NewTip(treeOp') = finalized_tip'
            /\ PrevTip(treeOp') = finalized_tip
            /\ PrevTip(treeOp') # NewTip(treeOp')]_vars

\* a report of two finalized blocks
C16_Witness ==
    /\ treeOp.op = "finalize"
    /\ treeOp.res = "Ok"
    /\ Len(treeOp.finalized) = 2
    /\ NewTip(treeOp) = finalized_tip
    /\ headers[NewTip(treeOp)] = treeOp.finalized[2]

----------------------------------------------------------------------------
\* Properties of the state store and the worker

\* C17: for every index i with 1 <= i <= the worker's last applied index a
\* checkpoint at i is in the state store, and the state the worker has
\* published is one whose output is in the store.
C17_StateCoverage ==
    /\ \A i \in 1..last_applied : GetConsensusState(cs_db, i) # None
    /\ (published # None =>
            /\ GetConsensusState(cs_db, Unwrap(published)) # None
            /\ Unwrap(published) <= last_applied)

C17_Witness ==
    /\ last_applied = 2
    /\ published = Some(2)
    /\ DOMAIN cs_db = 0..2

\* C18: the worker writes outputs at the indices 1, 2, 3, ... in that order,
\* each once, and never stops on a failed load or write; an EventInput(idx)
\* with idx <= last_applied changes nothing, and once the worker is back at
\* its queue it has applied every index up to the largest idx received.
C18_InOrderOnce ==
    [][/\ outlog' = [k \in 1..Len(outlog') |-> k]
       /\ wpc' # "fatal"
       /\ (wpc' # "start" => last_applied' = Len(outlog'))
       /\ \A i \in 1..Len(outlog') : GetConsensusState(cs_db', i) # None
       /\ (wpc' = "recv" => last_applied' = whi')
       /\ (Len(csm_queue') < Len(csm_queue) /\ Head(csm_queue) <= last_applied =>
                /\ cs_db' = cs_db
                /\ last_applied' = last_applied
                /\ published' = published
                /\ outlog' = outlog
                /\ wpc' = "recv")
       /\ (Len(csm_queue') < Len(csm_queue) /\ Head(csm_queue) > last_applied =>
                /\ wpc' = "apply"
                /\ wtarget' = Head(csm_queue))]_vars

\* EventInput(2) was handled first, indices 1 and 2 applied in order, and the
\* late EventInput(1) is next in the queue
C18_Witness ==
    /\ outlog = <<1, 2>>
    /\ last_applied = 2
    /\ wpc = "recv"
    /\ csm_queue = <<1>>

\* C19: write_output(index, output) fails with Overwrite when index is present
\* and with Gap when index > 0 and index - 1 is absent, leaving the store as it
\* was; on success the output is stored and last_index() is index.  The
\* checkpoints are always a contiguous range from 0 and none is overwritten.
C19_WriteOutputChecks ==
    [][csOp'.op = "write" =>
          LET i == csOp'.idx IN
          /\ (i \in DOMAIN cs_db => csOp'.res = "Overwrite")
          /\ (i > 0 /\ (i - 1) \notin DOMAIN cs_db => csOp'.res = "Gap")
          /\ (csOp'.res # "Ok" => cs_db' = cs_db)
          /\ (csOp'.res = "Ok" =>
                /\ GetConsensusState(cs_db', i) = Some(csOp'.output)
                /\ CsGetLastIdx(cs_db') = Some(i))
          /\ DOMAIN cs_db' = 0..(Cardinality(DOMAIN cs_db') - 1)
          /\ \A k \in DOMAIN cs_db :
                GetConsensusState(cs_db', k) = Some(cs_db[k])]_vars

C19_Witness ==
    /\ csOp.op = "write"
    /\ csOp.res = "Gap"
    /\ csOp.idx = 4
    /\ DOMAIN cs_db = 0..2

\* Nothing is in flight: no job queued or running, no producer inside submit,
\* no EventInput queued, the worker waiting on its queue
Quiescent ==
    /\ jobs = <<>>
    /\ \A w \in PoolThreads : wst[w].pc = "idle"
    /\ \A p \in Producers : ppc[p] = "idle"
    /\ csm_queue = <<>>
    /\ wpc = "recv"

\* C20: an append whose awaiter was cancelled stays in the journal at its
\* index, and the running worker applies it: once nothing is in flight any
\* more, a checkpoint at that index has been written.
C20_CancelledAppendApplied ==
    \A c \in cancelledAppends :
        /\ GetSyncEvent(db, c.idx) = Some(c.ev)
        /\ (Quiescent => GetConsensusState(cs_db, c.idx) # None)

C35_RestartRecovers ==
    /\ outlog = [k \in 1..Len(outlog) |-> k]
    /\ DOMAIN cs_db = 0..Len(outlog)
    /\ Quiescent => \A i \in DOMAIN db : GetConsensusState(cs_db, i) # None

----------------------------------------------------------------------------
\* More properties of the tracker

\* C36: the finalized tip is an entry of the pending table and the parent
\* recorded in its entry is the all-zero block id, also after finalize_tip has
\* moved the finalized tip.
C36_FinalizedTipEntry ==
    TrackerAlive =>
        /\ finalized_tip \in DOMAIN pending_table
        /\ pending_table[finalized_tip].parent = ZeroBlkid

\* C37: finalize_tip called with the block that is the finalized tip returns
\* no report and leaves the finalized tip, the pending table and the tips as
\* they were.
C37_RefinalizeRejected ==
    [][(TrackerAlive /\ treeOp'.op = "finalize" /\ treeOp'.blkid = finalized_tip
            /\ treeOp' # treeOp) =>
            /\ treeOp'.res # "Ok"
            /\ finalized_tip' = finalized_tip
            /\ pending_table' = pending_table
            /\ unfinalized_tips' = unfinalized_tips]_vars

\* C38: finalize_tip(b), b reachable from and different from the finalized
\* tip, fails none of its internal checks: the eviction finds every block it
\* pops, and the removals of the old finalized tip and of the path blocks
\* find their entries.
C38_FinalizeNeverAborts ==
    [][\A b \in Blocks : (TrackerAlive /\ FinalizeCall(b)) => treeOp'.res # "panic"]_vars

----------------------------------------------------------------------------
\* Properties of the state transition

\* A step in which process_event was called (a call that repeats the last
\* one with the same result and writes nothing changes no variable)
ProcessStep == procOp' # procOp \/ cs_db' # cs_db

Range(q) == {q[i] : i \in 1..Len(q)}

\* C23: process_event on NewTipBlock(blkid) returns, when the block data of
\* blkid is in the L2 store, the output with exactly the writes
\* [AcceptL2Block(blkid)] and the actions [UpdateTip(blkid)], which is written
\* at the index after the last checkpoint; when the data is absent it fails
\* with MissingL2Block(blkid), has no writes and no actions, and nothing is
\* written to the state store.
C23_NewTipBlock ==
    [][(ProcessStep /\ procOp'.ev.kind = "NewTipBlock") =>
        LET blkid == procOp'.ev.blkid
            out == procOp'.out IN
        IF blkid \in l2_store
        THEN /\ out.res = "Ok"
             /\ out.writes = <<[w |-> "AcceptL2Block", id |-> blkid]>>
             /\ out.actions = <<[a |-> "UpdateTip", id |-> blkid]>>
             /\ procOp'.idx = SetMax(DOMAIN cs_db) + 1
             /\ DOMAIN cs_db' = DOMAIN cs_db \cup {procOp'.idx}
             /\ cs_db'[procOp'.idx].writes = out.writes
             /\ cs_db'[procOp'.idx].actions = out.actions
        ELSE /\ out.res = "MissingL2Block"
             /\ out.blkid = blkid
             /\ out.writes = <<>>
             /\ out.actions = <<>>
             /\ cs_db' = cs_db]_vars

\* S2: L1Block then NewTipBlock(2) were applied: the store has outputs at 1
\* and 2 and the actions at index 2 include UpdateTip(2)
C23_Witness ==
    /\ DOMAIN cs_db = {0, 1, 2}
    /\ cs_db[1].writes = <<[w |-> "AcceptL1Block", id |-> 1]>>
    /\ [a |-> "UpdateTip", id |-> 2] \in Range(cs_db[2].actions)
    /\ procOp.ev = NewTipBlock(2)
    /\ procOp.idx = 2

\* C24: process_event on L1DABatch(blkids) fails with MissingL2Block(id) for
\* an id of the batch whose block data is absent, and then has no writes and
\* writes nothing to the state store; when all the block data is present it
\* returns an output whose writes record every id of the batch as accepted.
C24_DABatchRecorded ==
    [][(ProcessStep /\ procOp'.ev.kind = "L1DABatch") =>
        LET blkids == procOp'.ev.blkids
            out == procOp'.out
            missing == {id \in Range(blkids) : id \notin l2_store} IN
        IF missing # {}
        THEN /\ out.res = "MissingL2Block"
             /\ out.blkid \in missing
             /\ out.writes = <<>>
             /\ out.actions = <<>>
             /\ cs_db' = cs_db
        ELSE /\ out.res = "Ok"
             /\ \A id \in Range(blkids) :
                    [w |-> "AcceptL2Block", id |-> id] \in Range(out.writes)]_vars

----------------------------------------------------------------------------
\* Properties of the L1 writer

\* A step in which the watcher polled (a poll that repeats the last one with
\* the same result changes no variable)
PollStep == pollOp' # pollOp

\* The polls that go through check_and_update_blobentry_status with both
\* transaction records found
Checked(op) ==
    /\ op.old \in {"Unpublished", "Published", "Confirmed"}
    /\ op.ctx # "None"
    /\ op.rtx # "None"

\* C25: the status a poll derives is given by the table: the reveal status
\* if it is Finalized, Confirmed or Published, whatever the commit status;
\* otherwise NeedsResign if the commit is Excluded(MissingInputsOrSpent);
\* otherwise the current status of the blob.
C25_StatusTable ==
    Checked(pollOp) =>
        /\ pollOp.new \in BlobStatuses
        /\ pollOp.rtx = "Finalized" => pollOp.new = "Finalized"
        /\ pollOp.rtx = "Confirmed" => pollOp.new = "Confirmed"
        /\ pollOp.rtx = "Published" => pollOp.new = "Published"
        /\ (pollOp.rtx \notin {"Finalized", "Confirmed", "Published"}
                /\ pollOp.ctx = "Excluded(MissingInputsOrSpent)") =>
            pollOp.new = "NeedsResign"
        /\ (pollOp.rtx \notin {"Finalized", "Confirmed", "Published"}
                /\ pollOp.ctx # "Excluded(MissingInputsOrSpent)") =>
            pollOp.new = pollOp.old

\* A published reveal wins over a commit excluded for missing inputs
C25_Witness ==
    /\ Checked(pollOp)
    /\ pollOp.ctx = "Excluded(MissingInputsOrSpent)"
    /\ pollOp.rtx = "Published"
    /\ pollOp.old = "Confirmed"
    /\ pollOp.new = "Published"

\* C26: a poll of an Unpublished, Published or Confirmed blob that derives
\* Confirmed or Finalized advances the cursor by one in that poll and writes
\* the new status to the polled blob.
C26_CursorAdvances ==
    [][(PollStep /\ Checked(pollOp') /\ pollOp'.new \in {"Confirmed", "Finalized"}) =>
            /\ curr_blobidx' = curr_blobidx + 1
            /\ blobs'[curr_blobidx].status = pollOp'.new]_vars

\* C27: a poll of an Unsigned or NeedsResign blob leaves the cursor where it
\* is; when the signing succeeds the blob is written back Unpublished with
\* the two new txids, and when it fails the blob store is unchanged and the
\* watcher keeps running.
C27_SigningNonFatal ==
    [][(PollStep /\ pollOp'.old \in {"Unsigned", "NeedsResign"}) =>
            /\ curr_blobidx' = curr_blobidx
            /\ pollOp'.signing = "signed" =>
                /\ blobs'[curr_blobidx].status = "Unpublished"
                /\ blobs'[curr_blobidx].commit_txid \in (DOMAIN bcast') \ DOMAIN bcast
                /\ blobs'[curr_blobidx].reveal_txid \in (DOMAIN bcast') \ DOMAIN bcast
            /\ pollOp'.signing # "signed" =>
                /\ blobs' = blobs
                /\ watcher' = "running"]_vars

\* C28: the status of a blob becomes NeedsResign only in a poll of it that
\* finds its commit transaction Excluded(MissingInputsOrSpent); and a poll of
\* a NeedsResign blob whose signing succeeds makes it Unpublished with a
\* commit and a reveal txid that are new to the broadcast database and differ
\* from the ones it had (when the signing fails the blob is left as it is).
C28_NeedsResign ==
    [][/\ \A i \in DOMAIN blobs :
            (blobs[i].status # "NeedsResign" /\ blobs'[i].status = "NeedsResign") =>
                /\ i = curr_blobidx
                /\ pollOp'.idx = i
                /\ blobs[i].commit_txid \in DOMAIN bcast
                /\ bcast[blobs[i].commit_txid] = "Excluded(MissingInputsOrSpent)"
       /\ (PollStep /\ pollOp'.old = "NeedsResign") =>
            LET old == blobs[curr_blobidx]
                new == blobs'[curr_blobidx] IN
            IF pollOp'.signing = "signed"
            THEN /\ new.status = "Unpublished"
                 /\ new.commit_txid \notin (DOMAIN bcast) \cup {ZeroTxid}
                 /\ new.reveal_txid \notin (DOMAIN bcast) \cup {ZeroTxid}
                 /\ new.commit_txid # new.reveal_txid
                 /\ {new.commit_txid, new.reveal_txid} \subseteq DOMAIN bcast'
                 /\ {old.commit_txid, old.reveal_txid}
                        \cap {new.commit_txid, new.reveal_txid} = {}
            ELSE new = old]_vars

\* S5: the commit was excluded for missing inputs, the blob went to
\* NeedsResign and the next poll signed it again
C28_Witness ==
    /\ pollOp.old = "NeedsResign"
    /\ pollOp.signing = "signed"
    /\ pollOp.idx = 0
    /\ blobs[0] = BlobEntry("Unpublished", 3, 4)
    /\ bcast[1] = "Excluded(MissingInputsOrSpent)"

\* C29: a poll that derives Published, Confirmed or Finalized sets
\* L1Status.last_published_txid to the reveal txid of the polled blob; every
\* other poll, and every other step, leaves L1Status as it is.
C29_LastPublished ==
    [][l1_status' =
            IF PollStep /\ Checked(pollOp')
                /\ pollOp'.new \in {"Published", "Confirmed", "Finalized"}
            THEN Some(blobs[curr_blobidx].reveal_txid)
            ELSE l1_status]_vars

\* S4, second poll: the reveal is Published, the blob becomes Published
C29_Witness ==
    /\ pollOp.old = "Unpublished"
    /\ pollOp.rtx = "Published"
    /\ pollOp.new = "Published"
    /\ blobs[pollOp.idx].status = "Published"
    /\ l1_status = Some(blobs[pollOp.idx].reveal_txid)

FinalizedBlobs == {i \in DOMAIN blobs : blobs[i].status = "Finalized"}

\* C31: the cursor the writer starts with is 0 when the blob store holds no
\* Finalized entry (or is empty), otherwise the index after the highest
\* Finalized entry: no blob from the cursor on is Finalized, and the blob
\* just below a non-zero cursor is.
C31_StartupCursor ==
    (watcher = "running" /\ pollOp = NoPollOp) =>
        /\ curr_blobidx = IF FinalizedBlobs = {} THEN 0 ELSE SetMax(FinalizedBlobs) + 1
        /\ \A i \in DOMAIN blobs : i >= curr_blobidx => blobs[i].status # "Finalized"
        /\ curr_blobidx > 0 => blobs[curr_blobidx - 1].status = "Finalized"
        /\ curr_blobidx <= GetNextBlobIdx(blobs)

\* The store of the unit test: a Finalized entry below entries that are not
C31_Witness ==
    /\ watcher = "running"
    /\ DOMAIN blobs = {0, 1}
    /\ blobs[0].status = "Finalized"
    /\ blobs[1].status = "Published"
    /\ curr_blobidx = 1

\* C32: a blob entry has its commit_txid and reveal_txid set exactly when its
\* status is Unpublished, Published, Confirmed, Finalized or Excluded; an
\* Unsigned or NeedsResign entry has neither set.
C32_TxidsIffSigned ==
    \A i \in DOMAIN blobs :
        LET set_c == blobs[i].commit_txid # ZeroTxid
            set_r == blobs[i].reveal_txid # ZeroTxid IN
        IF blobs[i].status \in {"Unsigned", "NeedsResign"}
        THEN ~set_c /\ ~set_r
        ELSE set_c /\ set_r

----------------------------------------------------------------------------
\* Properties of the client init

\* C33: over an empty database the journal has no last index and
\* check_needs_client_init returns true; init_client_state(h, g) then leaves
\* exactly one checkpoint, at index 0, holding a client state with horizon h
\* and genesis g; and check_needs_client_init returns false exactly when a
\* checkpoint exists and an L2 block of height 0 exists.
C33_ClientInit ==
    [][/\ GetLastIdx(db) = None
       /\ (csOp'.op = "check_needs_client_init" /\ csOp' # csOp) =>
            /\ (DOMAIN cs_db = {} /\ l2_store = {}) => csOp'.res = "true"
            /\ csOp'.res = "false" <=> (DOMAIN cs_db # {} /\ GenesisBlkid \in l2_store)
            /\ cs_db' = cs_db
       /\ (csOp'.op = "init_client_state" /\ csOp' # csOp /\ DOMAIN cs_db = {}) =>
            /\ csOp'.res = "Ok"
            /\ DOMAIN cs_db' = {0}
            /\ cs_db'[0].horizon = csOp'.output.horizon
            /\ cs_db'[0].genesis = csOp'.output.genesis]_vars

\* S1 with horizon 1 and genesis 3
C33_Witness ==
    /\ csOp.op = "init_client_state"
    /\ csOp.res = "Ok"
    /\ csOp.output = FromGenesisParams(1, 3)
    /\ DOMAIN cs_db = {0}
    /\ cs_db[0] = [horizon |-> 1, genesis |-> 3]
    /\ l2_store = {}

\* C34: whenever check_needs_client_init returns true, init_client_state
\* succeeds and leaves at index 0 a checkpoint that holds the client state of
\* the parameters it was called with.
C34_InitIdempotent ==
    [][(csOp'.op = "init_client_state" /\ csOp' # csOp
            /\ CheckNeedsClientInit(cs_db, l2_store)) =>
            /\ csOp'.res = "Ok"
            /\ 0 \in DOMAIN cs_db'
            /\ cs_db'[0] = csOp'.output]_vars

----------------------------------------------------------------------------
\* More properties of the journal (SpecJournal)

\* C39: under sequential append and clear_range calls no index is assigned to
\* two events: the indices handed out are strictly increasing, the highest one
\* is never deleted (so last_index() is always the index of the latest append
\* and never decreases), and an index still stored holds the event it was
\* assigned to.
C39_IndicesNeverReused ==
    /\ \A j \in 1..Len(hist), k \in 1..Len(hist) : j < k => hist[j].idx < hist[k].idx
    /\ \A k \in 1..Len(hist) :
            GetSyncEvent(db, hist[k].idx) \in {None, Some(hist[k].ev)}
    /\ hist # <<>> =>
            /\ GetLastIdx(db) = Some(hist[Len(hist)].idx)
            /\ hist[Len(hist)].idx \notin cleared
            /\ \A i \in cleared : i < hist[Len(hist)].idx

\* two appends, clear_range(1, 2), then an append that returns 3
C39_Witness ==
    /\ lastOp.op = "append"
    /\ lastOp.ret = 3
    /\ cleared = {1}
    /\ DOMAIN db = {2, 3}

----------------------------------------------------------------------------
\* More properties of the L1 writer (SpecWriter)

\* C40: the watch cursor never decreases and moves by at most one in a step,
\* and only past a blob whose stored status is Finalized or Excluded or for
\* which the poll derived Confirmed or Finalized; a step changes no blob entry
\* but the one at the cursor (so none below it), and never an entry whose
\* stored status is Finalized.
C40_CursorAndWrites ==
    [][/\ curr_blobidx' \in {curr_blobidx, curr_blobidx + 1}
       /\ curr_blobidx' = curr_blobidx + 1 =>
            /\ PollStep
            /\ curr_blobidx \in DOMAIN blobs
            /\ \/ blobs[curr_blobidx].status \in {"Finalized", "Excluded"}
               \/ pollOp'.new \in {"Confirmed", "Finalized"}
       /\ DOMAIN blobs \subseteq DOMAIN blobs'
       /\ \A i \in DOMAIN blobs :
            blobs'[i] # blobs[i] =>
                /\ PollStep
                /\ i = curr_blobidx
                /\ i = pollOp'.idx
                /\ blobs[i].status # "Finalized"]_vars

\* The first of two blobs went through to Finalized and the poll that found it
\* Finalized moved the cursor to the second
C40_Witness ==
    /\ pollOp.idx = 0
    /\ pollOp.old = "Finalized"
    /\ curr_blobidx = 1
    /\ DOMAIN blobs = {0, 1}
    /\ blobs[0].status = "Finalized"

====
